---- MODULE Spec2Model ----
(***************************************************************************)
(* Model of pr_review.py: the PRReviewer class (URL parsing, gh queries,   *)
(* cache key, JSON cache store, completion call, comment posting) and the  *)
(* main command that sequences them.                                       *)
(*                                                                         *)
(* Text is modelled as sequences of characters.  A URL is a sequence over  *)
(* the characters "a" (a letter), "7" (a digit), "/" and two chunks that   *)
(* stand for literal text of the pattern: SCHEME for "https://github.com/" *)
(* and PULL for "pull".                                                    *)
(***************************************************************************)
EXTENDS Integers, Sequences, FiniteSets, TLC

VARIABLES pc, env, url, cache, dry_run, ref, diff, cache_key, review,
          cacheFiles, tempFiles, exit_status, handler,
          trace, ghCalls, remoteCalls, generated, displayed, posted,
          entryAtLookup, lastSaved, failedAt

vars == <<pc, env, url, cache, dry_run, ref, diff, cache_key, review,
          cacheFiles, tempFiles, exit_status, handler,
          trace, ghCalls, remoteCalls, generated, displayed, posted,
          entryAtLookup, lastSaved, failedAt>>

----------------------------------------------------------------------------
(* Bounds *)

\* longest review text saved and loaded in SpecCache
MaxLen == 2
\* longest owner / repository name in the URLs of SpecParse
MaxName == 1
\* longest review text the completion service returns in Spec
MaxReviewLen == 1
\* number of distinct diffs gh can return in Spec
MaxDiff == 3

SeqsUpTo(S, n) == UNION {[1..k -> S] : k \in 0..n}

----------------------------------------------------------------------------
(* Python values: None and str *)

None == [t |-> "none", v |-> <<>>]
Str(s) == [t |-> "str", v |-> s]
\* Python truthiness of an Optional[str]
Truthy(x) == x.t = "str" /\ x.v # <<>>

----------------------------------------------------------------------------
(* parse_pr_url *)

SCHEME == "https://github.com/"
PULL == "pull"
SLASH == "/"
\* character classes of the pattern: \d and [^/]
InClass(c, cls) == IF cls = "digit" THEN c = "7" ELSE c # SLASH

\* index one past the longest run of characters of class cls starting at i
RECURSIVE RunEnd(_, _, _)
RunEnd(s, i, cls) ==
  IF i <= Len(s) /\ InClass(s[i], cls) THEN RunEnd(s, i + 1, cls) ELSE i

Slice(s, i, j) == IF i >= j THEN <<>> ELSE SubSeq(s, i, j - 1)
StartsAt(s, i, lit) ==
  /\ i + Len(lit) - 1 <= Len(s)
  /\ \A k \in 1..Len(lit) : s[i + k - 1] = lit[k]

ValueError(u) == [tag |-> "ValueError", groups |-> <<>>, arg |-> u]
Groups(o, r, n) == [tag |-> "ok", groups |-> <<o, r, n>>, arg |-> <<>>]

\* re.match(r'https://github\.com/([^/]+)/([^/]+)/pull/(\d+)', url)
\* re.match anchors the start only: anything may follow the digits.
\* [^/]+ is greedy and is followed by a literal "/", so it takes the whole
\* run of non-slash characters; \d+ takes the whole run of digits.
parse_pr_url(u) ==
  LET o1 == 2
      o2 == RunEnd(u, o1, "notslash")
      r1 == o2 + 1
      r2 == RunEnd(u, r1, "notslash")
      n1 == r2 + 3
      n2 == RunEnd(u, n1, "digit")
  IN IF /\ StartsAt(u, 1, <<SCHEME>>)
        /\ o2 > o1
        /\ StartsAt(u, o2, <<SLASH>>)
        /\ r2 > r1
        /\ StartsAt(u, r2, <<SLASH, PULL, SLASH>>)
        /\ n2 > n1
     THEN Groups(Slice(u, o1, o2), Slice(u, r1, r2), Slice(u, n1, n2))
     ELSE ValueError(u)

----------------------------------------------------------------------------
(* JSON cache files *)

QUOTE == "\""
BACKSLASH == "\\"
NEWLINE == "\n"
\* '{\n  "review": ' and '\n}' of json.dump(..., indent=2), as chunks
OPEN == "{ \"review\": "
CLOSE == " }"
NULL == "null"

\* variant: the backslash is written as it is
EscapeQuoteOnly(c) == IF c = QUOTE THEN <<BACKSLASH, QUOTE>> ELSE <<c>>
\* the JSON escape of one character of a string
EscapeChar(c) ==
  IF c = QUOTE THEN <<BACKSLASH, QUOTE>>
  ELSE IF c = BACKSLASH THEN <<BACKSLASH, BACKSLASH>>
  ELSE IF c = NEWLINE THEN <<BACKSLASH, "n">>
  ELSE <<c>>

RECURSIVE EscapeStr(_)
EscapeStr(s) ==
  IF s = <<>> THEN <<>> ELSE EscapeChar(Head(s)) \o EscapeStr(Tail(s))

\* json.dump({'review': review}, f, indent=2)
JsonDump(x) ==
  IF x.t = "none" THEN <<OPEN, NULL, CLOSE>>
  ELSE <<OPEN, QUOTE>> \o EscapeStr(x.v) \o <<QUOTE, CLOSE>>

UnescapeChar(c) == IF c = "n" THEN NEWLINE ELSE c

JSONDecodeError == [t |-> "JSONDecodeError", v |-> <<>>]

\* scan a JSON string body starting at i; result is <<text, index after the
\* closing quote>>, or <<text, 0>> when the string is not terminated
RECURSIVE ScanStr(_, _, _)
ScanStr(s, i, acc) ==
  IF i > Len(s) THEN <<acc, 0>>
  ELSE IF s[i] = QUOTE THEN <<acc, i + 1>>
  ELSE IF s[i] = BACKSLASH
       THEN IF i + 1 > Len(s) THEN <<acc, 0>>
            ELSE ScanStr(s, i + 2, Append(acc, UnescapeChar(s[i + 1])))
  ELSE ScanStr(s, i + 1, Append(acc, s[i]))

\* json.load(f).get('review')
JsonLoadReview(text) ==
  IF Len(text) < 3 \/ text[1] # OPEN THEN JSONDecodeError
  ELSE IF text[2] = NULL
       THEN IF Len(text) = 3 /\ text[3] = CLOSE THEN None
            ELSE JSONDecodeError
  ELSE IF text[2] = QUOTE
       THEN LET r == ScanStr(text, 3, <<>>)
            IN IF r[2] # 0 /\ r[2] = Len(text) /\ text[r[2]] = CLOSE
               THEN Str(r[1]) ELSE JSONDecodeError
  ELSE JSONDecodeError

Absent == [exists |-> FALSE, text |-> <<>>]
File(text) == [exists |-> TRUE, text |-> text]

\* save_cache: open(cache_file, 'w') and json.dump
save_cache(files, k, r) == [files EXCEPT ![k] = File(JsonDump(r))]

\* load_cache: the stored review, or None when the file does not exist
load_cache(files, k) ==
  IF files[k].exists THEN JsonLoadReview(files[k].text) ELSE None

----------------------------------------------------------------------------
(* Inputs and environment of a run of main *)

ValidUrl(o, r, n) == <<SCHEME>> \o o \o <<SLASH>> \o r \o <<SLASH, PULL, SLASH>> \o n

\* PR numbers named on the command line
RunNums == {<<"7">>}
RunUrls ==
  {ValidUrl(<<"a">>, <<"a">>, n) : n \in RunNums}
    \cup {ValidUrl(<<"a">>, <<"a">>, n) \o <<SLASH, "a">> : n \in RunNums}
    \cup {<<"a">>}

\* OPENAI_BASE_URL: not in the environment, set to '', or set to a URL
Envs == {"unset", "empty", "set"}

Diffs == 1..MaxDiff
\* hashlib.sha256(diff).hexdigest()[:8]: finitely many digests, so distinct
\* diffs can share one
Digests == {0, 1}
Hash8(d) == d % Cardinality(Digests)

\* f'pr_{number}_{diff_hash[:8]}'
get_cache_key(number, d) == <<number, Hash8(d)>>
Keys == {get_cache_key(n, d) : n \in RunNums, d \in Diffs}

\* what response.choices[0].message.content can be
ReviewChars == {QUOTE}
RunReviews == {Str(s) : s \in SeqsUpTo(ReviewChars, MaxReviewLen)} \cup {None}

\* outcome of subprocess.run(['gh', ...], check=True): exit status 0,
\* a non-zero exit status, or gh cannot be started at all
GhOutcomes == {"ok", "nonzero", "oserror"}

Unset == [t |-> "unset", v |-> <<>>]
NoRef == [tag |-> "none", groups |-> <<>>, arg |-> <<>>]
NoEntry == [exists |-> FALSE, stored |-> None]

----------------------------------------------------------------------------
(* Decisions of the code *)

\* variant: `if base_url is None`
BaseUrlUnsetOnly(e) == e = "unset"
\* __init__: `if not base_url`
BaseUrlMissing(e) == e # "set"

\* variant: subprocess.run without check=True
RunGhIgnoreExit(outcome) == IF outcome = "oserror" THEN "raise" ELSE "return"
\* run_gh_command: return stdout, sys.exit(1) on CalledProcessError, and
\* any other exception (gh not installed) propagates to the caller
run_gh_command(outcome) ==
  IF outcome = "ok" THEN "return"
  ELSE IF outcome = "nonzero" THEN "exit"
  ELSE "raise"

\* main: `if cache:` before load_cache
UseCache(c) == c
\* main: `if not review:` before review_pr
NeedsGenerate(r) == ~Truthy(r)
\* variant: save_cache called whatever the flag
SaveAlways(c) == TRUE
\* main: `if cache:` before save_cache
ShouldSave(c) == c
\* variant: post_review called whatever the flag
PostAlways(d) == TRUE
\* main: `if not dry_run:` before post_review
ShouldPost(d) == ~d
\* variant: the except clause prints and returns None
ReviewPrSwallow == "continue"
\* review_pr: `except Exception` around the completion call does sys.exit(1)
ReviewPrOnError == "exit"
\* variant: temp_file.unlink() in a finally clause
UnlinkAlways(result) == TRUE
\* post_review: temp_file.unlink() is reached only when the command returned
UnlinkAfter(result) == result = "return"

----------------------------------------------------------------------------
(* Runs of main *)

Init ==
  /\ pc = "idle"
  /\ env = "set"
  /\ url = <<>>
  /\ cache = TRUE
  /\ dry_run = FALSE
  /\ ref = NoRef
  /\ diff = 0
  /\ cache_key = <<>>
  /\ review = None
  /\ cacheFiles = [k \in Keys |-> Absent]
  /\ tempFiles = [n \in RunNums |-> Absent]
  /\ exit_status = -1
  /\ handler = "none"
  /\ trace = <<>>
  /\ ghCalls = <<>>
  /\ remoteCalls = 0
  /\ generated = Unset
  /\ displayed = Unset
  /\ posted = Unset
  /\ entryAtLookup = NoEntry
  /\ lastSaved = [k \in Keys |-> Unset]
  /\ failedAt = "none"

\* the process ends with status 1; how says who ended it: "local" is a
\* sys.exit(1) at the point of failure, "toplevel" the except clause of
\* main, "uncaught" an exception that leaves main
Fail(step, how) ==
  /\ pc' = "exited"
  /\ exit_status' = 1
  /\ handler' = how
  /\ failedAt' = step

\* the command is started: click has parsed PR_URL, --cache/--no-cache and
\* --dry-run
Start ==
  /\ pc \in {"idle", "exited"}
  /\ \E u \in RunUrls, c \in BOOLEAN, d \in BOOLEAN, e \in Envs :
       /\ url' = u
       /\ cache' = c
       /\ dry_run' = d
       /\ env' = e
  /\ pc' = "construct"
  /\ ref' = NoRef
  /\ diff' = 0
  /\ cache_key' = <<>>
  /\ review' = None
  /\ exit_status' = -1
  /\ handler' = "none"
  /\ trace' = <<>>
  /\ ghCalls' = <<>>
  /\ remoteCalls' = 0
  /\ generated' = Unset
  /\ displayed' = Unset
  /\ posted' = Unset
  /\ entryAtLookup' = NoEntry
  /\ failedAt' = "none"
  /\ UNCHANGED <<cacheFiles, tempFiles, lastSaved>>

\* reviewer = PRReviewer(), outside the try of main
Construct ==
  /\ pc = "construct"
  /\ \E mkdir \in {"ok", "oserror"} :
       IF mkdir = "oserror" THEN Fail("construct", "uncaught")
       ELSE IF BaseUrlMissing(env) THEN Fail("construct", "local")
       ELSE /\ pc' = "parse"
            /\ UNCHANGED <<exit_status, handler, failedAt>>
  /\ UNCHANGED <<env, url, cache, dry_run, ref, diff, cache_key, review,
                 cacheFiles, tempFiles, trace, ghCalls, remoteCalls,
                 generated, displayed, posted, entryAtLookup, lastSaved>>

\* owner, repo, pr_number = reviewer.parse_pr_url(pr_url)
Parse ==
  /\ pc = "parse"
  /\ LET res == parse_pr_url(url)
     IN IF res.tag = "ok"
        THEN /\ ref' = res
             /\ pc' = "fetch_view"
             /\ UNCHANGED <<exit_status, handler, failedAt>>
        ELSE /\ Fail("parse", "toplevel")
             /\ UNCHANGED ref
  /\ UNCHANGED <<env, url, cache, dry_run, diff, cache_key, review,
                 cacheFiles, tempFiles, trace, ghCalls, remoteCalls,
                 generated, displayed, posted, entryAtLookup, lastSaved>>

\* one gh query of fetch_pr_data; parsed says whether json.loads accepts
\* the output (the diff is not parsed)
GhQuery(cmd, outcome, parsed, next) ==
  /\ ghCalls' = Append(ghCalls, <<cmd, outcome>>)
  /\ LET result == run_gh_command(outcome)
     IN IF result = "exit" THEN Fail("fetch", "local")
        ELSE IF result = "raise" \/ ~parsed THEN Fail("fetch", "toplevel")
        ELSE /\ pc' = next
             /\ failedAt' = IF outcome = "ok" THEN failedAt ELSE "fetch"
             /\ UNCHANGED <<exit_status, handler>>

\* gh pr view --json title,body,number,url,author
FetchView ==
  /\ pc = "fetch_view"
  /\ trace' = Append(trace, "fetch")
  /\ \E outcome \in GhOutcomes, parsed \in BOOLEAN :
       GhQuery("view", outcome, parsed, "fetch_diff")
  /\ UNCHANGED <<env, url, cache, dry_run, ref, diff, cache_key, review,
                 cacheFiles, tempFiles, remoteCalls,
                 generated, displayed, posted, entryAtLookup, lastSaved>>

\* gh pr diff
FetchDiff ==
  /\ pc = "fetch_diff"
  /\ \E outcome \in GhOutcomes, d \in Diffs :
       /\ GhQuery("diff", outcome, TRUE, "fetch_files")
       /\ diff' = IF pc' = "fetch_files" THEN d ELSE diff
  /\ UNCHANGED <<env, url, cache, dry_run, ref, cache_key, review,
                 cacheFiles, tempFiles, trace, remoteCalls,
                 generated, displayed, posted, entryAtLookup, lastSaved>>

\* gh pr view --json files
FetchFiles ==
  /\ pc = "fetch_files"
  /\ \E outcome \in GhOutcomes, parsed \in BOOLEAN :
       GhQuery("files", outcome, parsed, "check_cache")
  /\ UNCHANGED <<env, url, cache, dry_run, ref, diff, cache_key, review,
                 cacheFiles, tempFiles, trace, remoteCalls,
                 generated, displayed, posted, entryAtLookup, lastSaved>>

\* cache_key = get_cache_key(pr_data); review = None;
\* if cache: review = load_cache(cache_key)
\* gh answers with the number of the PR it was asked about
CheckCache ==
  /\ pc = "check_cache"
  /\ LET k == get_cache_key(ref.groups[3], diff)
         loaded == load_cache(cacheFiles, k)
     IN /\ cache_key' = k
        /\ entryAtLookup' = [exists |-> cacheFiles[k].exists, stored |-> loaded]
        /\ IF UseCache(cache)
           THEN /\ trace' = Append(trace, "lookup")
                /\ IF loaded = JSONDecodeError
                   THEN /\ Fail("lookup", "toplevel")
                        /\ UNCHANGED review
                   ELSE /\ review' = loaded
                        /\ pc' = IF NeedsGenerate(loaded) THEN "generate" ELSE "display"
                        /\ UNCHANGED <<exit_status, handler, failedAt>>
           ELSE /\ review' = None
                /\ pc' = IF NeedsGenerate(None) THEN "generate" ELSE "display"
                /\ UNCHANGED <<trace, exit_status, handler, failedAt>>
  /\ UNCHANGED <<env, url, cache, dry_run, ref, diff,
                 cacheFiles, tempFiles, ghCalls, remoteCalls,
                 generated, displayed, posted, lastSaved>>

\* review = review_pr(pr_data): load_prompt, then the completion call
Generate ==
  /\ pc = "generate"
  /\ trace' = Append(trace, "generate")
  /\ \/ \* gemini_prompt.yaml not found: sys.exit(1) in load_prompt
        /\ Fail("generate", "local")
        /\ UNCHANGED <<remoteCalls, generated, review>>
     \/ \* the YAML has no 'prompt' key: KeyError, raised outside the try
        /\ Fail("generate", "toplevel")
        /\ UNCHANGED <<remoteCalls, generated, review>>
     \/ \* the completion call raises
        /\ remoteCalls' = remoteCalls + 1
        /\ IF ReviewPrOnError = "exit"
           THEN /\ Fail("generate", "local")
                /\ UNCHANGED <<generated, review>>
           ELSE /\ review' = None
                /\ generated' = Unset
                /\ failedAt' = "generate"
                /\ pc' = IF ShouldSave(cache) THEN "save" ELSE "display"
                /\ UNCHANGED <<exit_status, handler>>
     \/ \* the completion call returns
        /\ remoteCalls' = remoteCalls + 1
        /\ \E r \in RunReviews :
             /\ review' = r
             /\ generated' = r
        /\ pc' = IF ShouldSave(cache) THEN "save" ELSE "display"
        /\ UNCHANGED <<exit_status, handler, failedAt>>
  /\ UNCHANGED <<env, url, cache, dry_run, ref, diff, cache_key,
                 cacheFiles, tempFiles, ghCalls,
                 displayed, posted, entryAtLookup, lastSaved>>

\* save_cache(cache_key, review)
Save ==
  /\ pc = "save"
  /\ trace' = Append(trace, "save")
  /\ cacheFiles' = save_cache(cacheFiles, cache_key, review)
  /\ lastSaved' = [lastSaved EXCEPT ![cache_key] = review]
  /\ pc' = "display"
  /\ UNCHANGED <<env, url, cache, dry_run, ref, diff, cache_key, review,
                 tempFiles, exit_status, handler, ghCalls, remoteCalls,
                 generated, displayed, posted, entryAtLookup, failedAt>>

\* console.print(review); with --dry-run main then returns
Display ==
  /\ pc = "display"
  /\ trace' = Append(trace, "display")
  /\ displayed' = review
  /\ IF ShouldPost(dry_run)
     THEN /\ pc' = "post_write"
          /\ UNCHANGED exit_status
     ELSE /\ pc' = "exited"
          /\ exit_status' = 0
  /\ UNCHANGED <<env, url, cache, dry_run, ref, diff, cache_key, review,
                 cacheFiles, tempFiles, handler, ghCalls, remoteCalls,
                 generated, posted, entryAtLookup, lastSaved, failedAt>>

\* post_review: open(temp_file, 'w') and f.write(review), before the try
PostWrite ==
  /\ pc = "post_write"
  /\ trace' = Append(trace, "post")
  /\ IF review.t = "str"
     THEN /\ tempFiles' = [tempFiles EXCEPT ![ref.groups[3]] = File(review.v)]
          /\ pc' = "post_cmd"
          /\ UNCHANGED <<exit_status, handler, failedAt>>
     ELSE \* f.write(None) raises TypeError; the file was already truncated
          /\ tempFiles' = [tempFiles EXCEPT ![ref.groups[3]] = File(<<>>)]
          /\ Fail("post", "toplevel")
  /\ UNCHANGED <<env, url, cache, dry_run, ref, diff, cache_key, review,
                 cacheFiles, ghCalls, remoteCalls,
                 generated, displayed, posted, entryAtLookup, lastSaved>>

\* post_review: gh pr comment --body-file temp_file, then temp_file.unlink()
PostCmd ==
  /\ pc = "post_cmd"
  /\ \E outcome \in GhOutcomes :
       LET result == run_gh_command(outcome)
           n == ref.groups[3]
       IN /\ ghCalls' = Append(ghCalls, <<"comment", outcome>>)
          /\ tempFiles' = IF UnlinkAfter(result)
                          THEN [tempFiles EXCEPT ![n] = Absent]
                          ELSE tempFiles
          /\ IF outcome = "ok"
             THEN /\ posted' = Str(tempFiles[n].text)
                  /\ IF result = "return"
                     THEN /\ pc' = "exited"
                          /\ exit_status' = 0
                          /\ UNCHANGED <<handler, failedAt>>
                     ELSE Fail("post", "local")
             ELSE /\ posted' = posted
                  /\ IF result = "return"
                     THEN /\ pc' = "exited"
                          /\ exit_status' = 0
                          /\ failedAt' = "post"
                          /\ UNCHANGED handler
                     ELSE Fail("post", "local")
  /\ UNCHANGED <<env, url, cache, dry_run, ref, diff, cache_key, review,
                 cacheFiles, trace, remoteCalls,
                 generated, displayed, entryAtLookup, lastSaved>>

Next ==
  \/ Start
  \/ Construct
  \/ Parse
  \/ FetchView
  \/ FetchDiff
  \/ FetchFiles
  \/ CheckCache
  \/ Generate
  \/ Save
  \/ Display
  \/ PostWrite
  \/ PostCmd

Spec == Init /\ [][Next]_vars

TypeOK ==
  /\ pc \in {"idle", "construct", "parse", "fetch_view", "fetch_diff",
             "fetch_files", "check_cache", "generate", "save", "display",
             "post_write", "post_cmd", "exited"}
  /\ exit_status \in {-1, 0, 1}
  /\ remoteCalls \in 0..1

----------------------------------------------------------------------------
(* parse_pr_url on its own: every input string, one application *)

UrlNames == SeqsUpTo({"a", "7", PULL}, MaxName)
UrlInputs ==
  {pre \o o \o <<SLASH>> \o r \o mid \o n \o suf :
     pre \in {<<SCHEME>>, <<"a", SCHEME>>, <<"a">>},
     o \in UrlNames, r \in UrlNames,
     mid \in {<<SLASH, PULL, SLASH>>, <<SLASH, "a", SLASH>>, <<SLASH, PULL>>, <<SLASH>>},
     n \in {<<>>, <<"7">>, <<"7", "7">>},
     suf \in {<<>>, <<SLASH, "a">>, <<"a">>, <<SLASH>>}}

InitParse == Init

ChooseUrl ==
  /\ pc = "idle"
  /\ url' \in UrlInputs
  /\ pc' = "parse_in"
  /\ UNCHANGED <<env, cache, dry_run, ref, diff, cache_key, review,
                 cacheFiles, tempFiles, exit_status, handler, trace, ghCalls,
                 remoteCalls, generated, displayed, posted, entryAtLookup,
                 lastSaved, failedAt>>

ApplyParse ==
  /\ pc = "parse_in"
  /\ ref' = parse_pr_url(url)
  /\ pc' = "parse_out"
  /\ UNCHANGED <<env, url, cache, dry_run, diff, cache_key, review,
                 cacheFiles, tempFiles, exit_status, handler, trace, ghCalls,
                 remoteCalls, generated, displayed, posted, entryAtLookup,
                 lastSaved, failedAt>>

NextParse ==
  \/ ChooseUrl
  \/ ApplyParse

SpecParse == InitParse /\ [][NextParse]_vars

----------------------------------------------------------------------------
(* save_cache and load_cache on their own: any key, any review string *)

CacheChars == {"n", QUOTE, BACKSLASH, NEWLINE}
CacheReviews == {Str(s) : s \in SeqsUpTo(CacheChars, MaxLen)}

InitCache == Init

CacheSave ==
  /\ \E k \in Keys, r \in CacheReviews :
       /\ cacheFiles' = save_cache(cacheFiles, k, r)
       /\ lastSaved' = [lastSaved EXCEPT ![k] = r]
       /\ cache_key' = k
  /\ pc' = "saved"
  /\ review' = None
  /\ UNCHANGED <<env, url, cache, dry_run, ref, diff,
                 tempFiles, exit_status, handler, trace, ghCalls,
                 remoteCalls, generated, displayed, posted, entryAtLookup,
                 failedAt>>

CacheLoad ==
  /\ \E k \in Keys :
       /\ review' = load_cache(cacheFiles, k)
       /\ cache_key' = k
  /\ pc' = "loaded"
  /\ UNCHANGED <<env, url, cache, dry_run, ref, diff,
                 cacheFiles, tempFiles, exit_status, handler, trace, ghCalls,
                 remoteCalls, generated, displayed, posted, entryAtLookup,
                 lastSaved, failedAt>>

NextCache ==
  \/ CacheSave
  \/ CacheLoad

SpecCache == InitCache /\ [][NextCache]_vars

----------------------------------------------------------------------------
(* Properties *)

Has(seq, x) == \E i \in 1..Len(seq) : seq[i] = x
PrNumber == ref.groups[3]
LastGh == ghCalls[Len(ghCalls)]

\* C1: with caching enabled, when an entry holding a review string exists
\* under the computed key, the run makes no completion call and the review
\* displayed and posted is the stored string.
C1_CacheHitSkipsRemote ==
  (cache /\ entryAtLookup.exists /\ entryAtLookup.stored.t = "str")
    => /\ remoteCalls = 0
       /\ pc # "generate"
       /\ displayed # Unset => displayed = entryAtLookup.stored
       /\ posted # Unset => posted = entryAtLookup.stored

\* C2: when OPENAI_BASE_URL is unset or empty, the run ends in the
\* constructor with exit status 1, having made no gh call and no completion
\* call, and having reached none of fetch, review, display, post.
C2_MissingBaseUrlExitsFirst ==
  (env \in {"unset", "empty"} /\ pc \notin {"idle", "construct"})
    => /\ pc = "exited"
       /\ exit_status = 1
       /\ failedAt = "construct"
       /\ ghCalls = <<>>
       /\ remoteCalls = 0
       /\ trace = <<>>
       /\ displayed = Unset
       /\ posted = Unset

C2_Witness ==
  /\ pc = "exited"
  /\ env = "empty"
  /\ exit_status = 1
  /\ handler = "local"
  /\ ghCalls = <<>>

\* C3: in a run with --dry-run nothing of post_review happens (no temporary
\* file is written, no gh pr comment is run), and a run that obtained a
\* review, from the cache or from the completion call, ends with that
\* review displayed.
C3_DryRunNeverPosts ==
  /\ [](dry_run =>
          /\ pc \notin {"post_write", "post_cmd"}
          /\ ~Has(trace, "post")
          /\ \A i \in 1..Len(ghCalls) : ghCalls[i][1] # "comment"
          /\ posted = Unset
          /\ (pc = "exited" /\ (generated # Unset \/ Truthy(review)))
               => (displayed = review /\ exit_status = 0))
  /\ [][dry_run' => tempFiles' = tempFiles]_vars

C3_Witness ==
  /\ pc = "exited"
  /\ dry_run
  /\ cache
  /\ entryAtLookup.exists
  /\ remoteCalls = 0
  /\ displayed = Str(<<QUOTE>>)
  /\ exit_status = 0

\* C4: when one of the three gh queries of fetch_pr_data exits non-zero,
\* that query is the last gh call of the run and was issued once, the run
\* ends with exit status 1, and no cache lookup, completion call, cache
\* save, display or post happens in it.
FetchCmds == {"view", "diff", "files"}
C4_FetchFailureIsFatal ==
  (\E i \in 1..Len(ghCalls) :
      ghCalls[i][1] \in FetchCmds /\ ghCalls[i][2] = "nonzero")
    => /\ pc = "exited"
       /\ exit_status = 1
       /\ LastGh[2] = "nonzero"
       /\ \A i, j \in 1..Len(ghCalls) : ghCalls[i][1] = ghCalls[j][1] => i = j
       /\ trace = <<"fetch">>
       /\ remoteCalls = 0
       /\ review = None
       /\ displayed = Unset
       /\ posted = Unset

C4_Witness ==
  /\ pc = "exited"
  /\ ghCalls = << <<"view", "ok">>, <<"diff", "nonzero">> >>
  /\ exit_status = 1
  /\ handler = "local"

\* C5: load_cache of a key returns exactly the review string last saved
\* under that key, and None (not an error) for a key never saved.
C5_SaveLoadRoundTrip ==
  pc = "loaded" =>
    review = IF lastSaved[cache_key] = Unset THEN None ELSE lastSaved[cache_key]

C5_Witness ==
  /\ pc = "loaded"
  /\ lastSaved[cache_key] = Str(<<BACKSLASH, QUOTE>>)
  /\ review = Str(<<BACKSLASH, QUOTE>>)
  /\ \E k \in Keys : lastSaved[k] = Unset

\* the form https://github.com/{o}/{r}/pull/{n}: o and r non-empty without
\* "/", n a non-empty run of digits; i and j are the positions of the
\* slashes after o and after r
IsName(x) == x # <<>> /\ \A k \in 1..Len(x) : x[k] # SLASH /\ x[k] # SCHEME
IsNumber(x) == x # <<>> /\ \A k \in 1..Len(x) : x[k] = "7"
FormAt(u, i, j) ==
  /\ 2 < i /\ i + 1 < j /\ j + 2 < Len(u)
  /\ IsName(SubSeq(u, 2, i - 1))
  /\ IsName(SubSeq(u, i + 1, j - 1))
  /\ IsNumber(SubSeq(u, j + 3, Len(u)))
  /\ u = ValidUrl(SubSeq(u, 2, i - 1), SubSeq(u, i + 1, j - 1),
                  SubSeq(u, j + 3, Len(u)))

\* C6: parse_pr_url returns (o, r, n) for every URL of the form
\* https://github.com/{o}/{r}/pull/{n} and fails with ValueError carrying
\* the URL for every other string, also for one that continues after a
\* valid PR URL.
C6_ParseExactForm ==
  pc = "parse_out" =>
    IF \E i, j \in 1..Len(url) : FormAt(url, i, j)
    THEN \E i, j \in 1..Len(url) :
           /\ FormAt(url, i, j)
           /\ ref = Groups(SubSeq(url, 2, i - 1), SubSeq(url, i + 1, j - 1),
                           SubSeq(url, j + 3, Len(url)))
    ELSE ref = ValueError(url)

C8_NeverUpdatedInPlace ==
  [][\A k \in Keys : cacheFiles[k].exists => cacheFiles'[k] = cacheFiles[k]]_vars

\* C9: the steps of a run happen in the order fetch, lookup, generate,
\* save, display, post, each at most once; with --no-cache there is no
\* lookup and no save, the cache files are untouched and a run that
\* displays a review made the completion call; a save follows a completion
\* call that returned in the same run and stores what it returned; what is
\* posted is what was displayed.
Rank(step) ==
  CASE step = "fetch" -> 1
    [] step = "lookup" -> 2
    [] step = "generate" -> 3
    [] step = "save" -> 4
    [] step = "display" -> 5
    [] step = "post" -> 6
C9_StepOrder ==
  /\ [](/\ \A i, j \in 1..Len(trace) : i < j => Rank(trace[i]) < Rank(trace[j])
        /\ remoteCalls <= 1
        /\ ~cache => /\ ~Has(trace, "lookup")
                     /\ ~Has(trace, "save")
                     /\ pc # "save"
                     /\ displayed # Unset => remoteCalls = 1
        /\ Has(trace, "save") =>
             /\ remoteCalls = 1
             /\ generated # Unset
             /\ lastSaved[cache_key] = generated
             /\ load_cache(cacheFiles, cache_key) = generated
        /\ posted # Unset => posted = displayed)
  /\ [][~cache' => cacheFiles' = cacheFiles]_vars

C9_Witness ==
  /\ pc = "exited"
  /\ exit_status = 0
  /\ trace = <<"fetch", "lookup", "generate", "save", "display", "post">>
  /\ posted = Str(<<QUOTE>>)
  /\ displayed = posted
  /\ generated = posted

\* C10: when gh pr comment is invoked the temporary file holds the review;
\* after the command succeeded the file is gone and the run ends with 0;
\* after it failed the run ends with 1 and the file still holds the review.
C10_TempFile ==
  /\ pc = "post_cmd" =>
       /\ tempFiles[PrNumber] = File(review.v)
       /\ \A i \in 1..Len(ghCalls) : ghCalls[i][1] # "comment"
  /\ (pc = "exited" /\ ghCalls # <<>> /\ LastGh[1] = "comment") =>
       IF LastGh[2] = "ok"
       THEN ~tempFiles[PrNumber].exists /\ exit_status = 0
       ELSE tempFiles[PrNumber] = File(review.v) /\ exit_status = 1

C10_Witness ==
  /\ pc = "exited"
  /\ ghCalls # <<>>
  /\ LastGh = <<"comment", "nonzero">>
  /\ tempFiles[PrNumber] = File(<<QUOTE>>)
  /\ exit_status = 1

====
